---- MODULE Spec2Model ----
(***************************************************************************)
(* Model of src/main.cpp: the Figure::Factory registry, the Figure         *)
(* variants (Circle, Triangle, Square), the Reader implementations and the *)
(* Feature decoder (read / draw / isValid).                                *)
(*                                                                         *)
(* Abstractions:                                                           *)
(*  - a double is modelled by an integer (2.1 is 21, in tenths);           *)
(*  - a byte source is a sequence of elements, one element per fread       *)
(*    element of whatever size the call asks for;                          *)
(*  - Feature::read takes its reader per call, so every Read step draws a  *)
(*    reader; a File reused at some offset behaves as a fresh File over    *)
(*    the bytes that remain;                                               *)
(*  - `new` appends to heap, and a pointer is an index into heap           *)
(*    (nullptr is 0).                                                      *)
(***************************************************************************)
EXTENDS Integers, Sequences, FiniteSets, TLC

VARIABLES
    figureFactory,  \* Factory::figureFactory : Type -> constructor (the class it news)
    heap,           \* the Figure objects allocated so far
    figures,        \* Feature::figures : Type -> pointer
    currentFigure,  \* Feature::currentFigure
    currentParams,  \* Feature::currentParams
    ret,            \* the last call made, its arguments and what it returned / emitted;
                    \* for read also reads, the reader.read calls it made in order
    lastOk          \* history: the record supplied to the last read() that returned true

vars == <<figureFactory, heap, figures, currentFigure, currentParams, ret, lastOk>>

----------------------------------------------------------------------------
(* Bounds *)

MaxBatch == 2   \* longest template pack given to registerFigure<Args...>()
MaxCreate == 2  \* createFigure calls made directly on the factory
MaxSeed == 3    \* distinct parameter payloads a file may carry

----------------------------------------------------------------------------
(* Figure::Type and the variants *)

eCircle == 0
eTriangle == 1
eSquare == 2

Type == {eCircle, eTriangle, eSquare}

\* Values an object of type Figure::Type can hold after being filled from raw
\* bytes: the three enumerators and one value that names no variant.
Tags == Type \cup {eSquare + 1}

FigureImpl == {"Circle", "Triangle", "Square"}

\* FigureImpl::TYPE
TYPE(cls) ==
    CASE cls = "Circle" -> eCircle
      [] cls = "Triangle" -> eTriangle
      [] cls = "Square" -> eSquare

\* COUNT_PARAMS with the triangle's count one short
COUNT_PARAMS_Short(cls) ==
    CASE cls = "Circle" -> 3
      [] cls = "Triangle" -> 5
      [] cls = "Square" -> 8

\* FigureImpl::COUNT_PARAMS
COUNT_PARAMS(cls) ==
    CASE cls = "Circle" -> 3
      [] cls = "Triangle" -> 6
      [] cls = "Square" -> 8

\* every variant constructed with the circle's parameter count
NewFigure_CircleCount(cls) ==
    [cls |-> cls, _type |-> TYPE(cls), _countParams |-> COUNT_PARAMS("Circle")]

\* Figure::Figure(type_, countParams_) as called by each variant's constructor
NewFigure(cls) ==
    [cls |-> cls, _type |-> TYPE(cls), _countParams |-> COUNT_PARAMS(cls)]

nullptr == 0

\* countParams() returning the wrong member
countParams_Type(obj) == obj._type

\* Figure::countParams()
countParams(obj) == obj._countParams

\* Figure::type()
type(obj) == obj._type

----------------------------------------------------------------------------
(* Drawer::IDrawer calls, as values *)

drawCircle(centerX, centerY, radius) ==
    [fn |-> "drawCircle", centerX |-> centerX, centerY |-> centerY, radius |-> radius]

drawPoligon(points) ==
    [fn |-> "drawPoligon", points |-> points]

\* Circle::draw with the centre coordinates passed in the wrong order
CircleDraw_Swapped(params) ==
    IF Len(params) >= COUNT_PARAMS("Circle")
    THEN <<drawCircle(params[2], params[1], params[3])>>
    ELSE <<>>

\* Circle::draw : the drawer calls it makes
CircleDraw(params) ==
    IF Len(params) >= COUNT_PARAMS("Circle")
    THEN <<drawCircle(params[1], params[2], params[3])>>
    ELSE <<>>

\* Triangle::draw with the size test written as >
TriangleDraw_Strict(params) ==
    IF Len(params) > COUNT_PARAMS("Triangle")
    THEN <<drawPoligon(params)>>
    ELSE <<>>

\* Triangle::draw
TriangleDraw(params) ==
    IF Len(params) >= COUNT_PARAMS("Triangle")
    THEN <<drawPoligon(params)>>
    ELSE <<>>

\* Square::draw
SquareDraw(params) ==
    IF Len(params) >= COUNT_PARAMS("Square")
    THEN <<drawPoligon(params)>>
    ELSE <<>>

\* virtual Figure::draw, dispatched on the object's class
FigureDraw(obj, params) ==
    CASE obj.cls = "Circle" -> CircleDraw(params)
      [] obj.cls = "Triangle" -> TriangleDraw(params)
      [] obj.cls = "Square" -> SquareDraw(params)

----------------------------------------------------------------------------
(* Figure::Factory *)

\* registerFigure<FigureImpl>(bool&) that finds the duplicate and returns
\* without setting res
registerOne_Silent(st, cls) ==
    IF TYPE(cls) \in DOMAIN st.map
    THEN [map |-> st.map, res |-> st.res]
    ELSE [map |-> [t \in DOMAIN st.map \cup {TYPE(cls)} |->
                      IF t = TYPE(cls) THEN cls ELSE st.map[t]],
          res |-> st.res]

\* registerFigure<FigureImpl>(bool&) that sets res = true when it inserts
registerOne_Mask(st, cls) ==
    IF TYPE(cls) \in DOMAIN st.map
    THEN [map |-> st.map, res |-> FALSE]
    ELSE [map |-> [t \in DOMAIN st.map \cup {TYPE(cls)} |->
                      IF t = TYPE(cls) THEN cls ELSE st.map[t]],
          res |-> TRUE]

\* Factory::registerFigure<FigureImpl>(bool &res): st = [map, res]
registerOne(st, cls) ==
    IF TYPE(cls) \in DOMAIN st.map
    THEN [map |-> st.map, res |-> FALSE]
    ELSE [map |-> [t \in DOMAIN st.map \cup {TYPE(cls)} |->
                      IF t = TYPE(cls) THEN cls ELSE st.map[t]],
          res |-> st.res]

RECURSIVE registerPack_Stop(_, _)
\* a pack expansion that stops at the first rejected kind
registerPack_Stop(st, args) ==
    IF args = <<>> \/ ~st.res THEN st
    ELSE registerPack_Stop(registerOne(st, Head(args)), Tail(args))

RECURSIVE registerPack(_, _)
\* the pack expansion { 0, (registerFigure<Args>(res), 0)... }, left to right
registerPack(st, args) ==
    IF args = <<>> THEN st
    ELSE registerPack(registerOne(st, Head(args)), Tail(args))

\* Factory::registerFigure<Args...>() : [map, res]
registerFigure(map, args) ==
    registerPack([map |-> map, res |-> TRUE], args)

\* createFigure that calls the creator of the map's first entry instead of
\* the one found
createFigure_First(map, t) ==
    IF t \notin DOMAIN map THEN ""
    ELSE map[CHOOSE k \in DOMAIN map : \A j \in DOMAIN map : k <= j]

\* Factory::createFigure: the class the stored creator news, or "" for nullptr
createFigure(map, t) ==
    IF t \notin DOMAIN map THEN "" ELSE map[t]

----------------------------------------------------------------------------
(* Reader::IReader implementations *)

MockValue == 21

MaxParams == COUNT_PARAMS("Square")

\* a payload of n doubles, all different
Payload(seed, n) == [i \in 1..n |-> 10 * seed + i]

\* the contents a features.dat may have: nothing, or a tag followed by up to
\* MaxParams doubles (more than a circle or a triangle needs)
Contents ==
    {<<>>} \cup
    {<<t>> \o SubSeq(Payload(s, MaxParams), 1, k) :
        t \in Tags, s \in 1..MaxSeed, k \in 0..MaxParams}

\* file = NULL when fopen failed
Readers ==
    {[impl |-> "File", file |-> FALSE, data |-> <<>>]} \cup
    {[impl |-> "File", file |-> TRUE, data |-> d] : d \in Contents} \cup
    {[impl |-> "ReaderMock", file |-> FALSE, data |-> <<>>]}

\* Reader::File::read at offset pos: [ok, data]
FileRead(reader, pos, count) ==
    IF ~reader.file
    THEN [ok |-> FALSE, data |-> <<>>]
    ELSE IF Len(reader.data) - pos >= count
         THEN [ok |-> TRUE, data |-> SubSeq(reader.data, pos + 1, pos + count)]
         ELSE [ok |-> FALSE, data |-> SubSeq(reader.data, pos + 1, Len(reader.data))]

\* ReaderMock::read that never advances dst: only the first element is filled
\* (the vector's other elements keep the 0 they were constructed with)
ReaderMockRead_NoAdvance(count) ==
    IF count = 1
    THEN [ok |-> TRUE, data |-> <<eCircle>>]
    ELSE [ok |-> TRUE, data |-> [i \in 1..count |-> IF i = 1 THEN MockValue ELSE 0]]

\* Testing::ReaderMock::read
ReaderMockRead(count) ==
    IF count = 1
    THEN [ok |-> TRUE, data |-> <<eCircle>>]
    ELSE [ok |-> TRUE, data |-> [i \in 1..count |-> MockValue]]

\* virtual IReader::read
ReaderRead(reader, pos, count) ==
    IF reader.impl = "File" THEN FileRead(reader, pos, count)
    ELSE ReaderMockRead(count)

\* one reader.read(dst, size, count) call as Feature::read sees it: the count
\* it asked for, the result and what was written to dst
Call(count, r) == [count |-> count, ok |-> r.ok, data |-> r.data]

----------------------------------------------------------------------------
(* Feature *)

\* ReadFail that also resets the held record
ReadFail_Clear(f, reads) ==
    [res |-> FALSE, figures |-> f.figures, heap |-> f.heap,
     currentFigure |-> nullptr, currentParams |-> <<>>,
     reads |-> reads]

\* The failure exits of Feature::read (return false): nothing of the held
\* record is assigned.  f = [figures, heap, currentFigure, currentParams]
ReadFail(f, reads) ==
    [res |-> FALSE, figures |-> f.figures, heap |-> f.heap,
     currentFigure |-> f.currentFigure, currentParams |-> f.currentParams,
     reads |-> reads]

\* The success exit of Feature::read
ReadOk(f, figure, params, reads) ==
    [res |-> TRUE, figures |-> f.figures, heap |-> f.heap,
     currentFigure |-> figure, currentParams |-> params,
     reads |-> reads]

\* Resolve without the figures.find: the factory is asked on every decode and
\* the new instance takes the kind's cache entry
Resolve_NoFind(map, f, t) ==
    LET cls == createFigure(map, t) IN
    IF cls = ""
    THEN [figure |-> nullptr, figures |-> f.figures, heap |-> f.heap]
    ELSE LET p == Len(f.heap) + 1 IN
         [figure |-> p,
          figures |-> [k \in DOMAIN f.figures \cup {t} |->
                          IF k = t THEN p ELSE f.figures[k]],
          heap |-> Append(f.heap, NewFigure(cls))]

\* figures.find(type), and on a miss createFigure + figures.emplace:
\* [figure, figures, heap], figure = nullptr when the factory returned nullptr
Resolve(map, f, t) ==
    IF t \in DOMAIN f.figures
    THEN [figure |-> f.figures[t], figures |-> f.figures, heap |-> f.heap]
    ELSE LET cls == createFigure(map, t) IN
         IF cls = ""
         THEN [figure |-> nullptr, figures |-> f.figures, heap |-> f.heap]
         ELSE LET p == Len(f.heap) + 1 IN
              [figure |-> p,
               figures |-> [k \in DOMAIN f.figures \cup {t} |->
                               IF k = t THEN p ELSE f.figures[k]],
               heap |-> Append(f.heap, NewFigure(cls))]

\* Feature::read with currentFigure assigned before the parameters are read
FeatureRead_EarlyAssign(map, f, reader) ==
    LET tag == ReaderRead(reader, 0, 1) IN
    IF ~tag.ok THEN ReadFail(f, <<Call(1, tag)>>)
    ELSE
      LET r == Resolve(map, f, tag.data[1]) IN
      IF r.figure = nullptr THEN ReadFail(f, <<Call(1, tag)>>)
      ELSE
        LET g == [f EXCEPT !.figures = r.figures, !.heap = r.heap,
                           !.currentFigure = r.figure]
            n == countParams(r.heap[r.figure])
            params == ReaderRead(reader, 1, n)
        IN IF ~params.ok THEN ReadFail(g, <<Call(1, tag), Call(n, params)>>)
           ELSE ReadOk(g, r.figure, params.data, <<Call(1, tag), Call(n, params)>>)

\* Feature::read that puts the variant into the cache only after the
\* parameters were read (on a short read the new instance stays allocated,
\* uncached)
FeatureRead_LateCache(map, f, reader) ==
    LET tag == ReaderRead(reader, 0, 1) IN
    IF ~tag.ok THEN ReadFail(f, <<Call(1, tag)>>)
    ELSE
      LET r == Resolve(map, f, tag.data[1]) IN
      IF r.figure = nullptr THEN ReadFail(f, <<Call(1, tag)>>)
      ELSE
        LET g == [f EXCEPT !.figures = r.figures, !.heap = r.heap]
            n == countParams(r.heap[r.figure])
            params == ReaderRead(reader, 1, n)
        IN IF ~params.ok
           THEN ReadFail([f EXCEPT !.heap = r.heap], <<Call(1, tag), Call(n, params)>>)
           ELSE ReadOk(g, r.figure, params.data, <<Call(1, tag), Call(n, params)>>)

\* Feature::read
FeatureRead(map, f, reader) ==
    LET tag == ReaderRead(reader, 0, 1) IN
    IF ~tag.ok THEN ReadFail(f, <<Call(1, tag)>>)
    ELSE
      LET r == Resolve(map, f, tag.data[1]) IN
      IF r.figure = nullptr THEN ReadFail(f, <<Call(1, tag)>>)
      ELSE
        LET g == [f EXCEPT !.figures = r.figures, !.heap = r.heap]
            n == countParams(r.heap[r.figure])
            params == ReaderRead(reader, 1, n)
        IN IF ~params.ok THEN ReadFail(g, <<Call(1, tag), Call(n, params)>>)
           ELSE ReadOk(g, r.figure, params.data, <<Call(1, tag), Call(n, params)>>)

\* Feature::draw that consumes the held record
FeatureDraw_Consume(hp, figure, params) ==
    [calls |-> IF figure # nullptr THEN FigureDraw(hp[figure], params) ELSE <<>>,
     currentFigure |-> nullptr,
     currentParams |-> <<>>]

\* Feature::draw (a non-const method): the drawer calls it makes, and the held
\* record it leaves
FeatureDraw(hp, figure, params) ==
    [calls |-> IF figure # nullptr THEN FigureDraw(hp[figure], params) ELSE <<>>,
     currentFigure |-> figure,
     currentParams |-> params]

\* Feature::isValid
isValid == currentFigure # nullptr

----------------------------------------------------------------------------
(* The state machine *)

Batches == UNION {[1..n -> FigureImpl] : n \in 0..MaxBatch}

None == [present |-> FALSE]

\* Feature with currentFigure left without its initialiser, holding a stray
\* non-null address
FeatureInit_Stray ==
    [figures |-> <<>>, currentFigure |-> 1, currentParams |-> <<>>]

\* Feature::Feature and the member initialisers
FeatureInit ==
    [figures |-> <<>>, currentFigure |-> nullptr, currentParams |-> <<>>]

Init ==
    /\ figureFactory = <<>>
    /\ heap = <<>>
    /\ figures = FeatureInit.figures
    /\ currentFigure = FeatureInit.currentFigure
    /\ currentParams = FeatureInit.currentParams
    /\ ret = [op |-> "init"]
    /\ lastOk = None

\* figureFactory.registerFigure<Args...>()
Register ==
    \E args \in Batches :
        LET r == registerFigure(figureFactory, args) IN
        /\ figureFactory' = r.map
        /\ ret' = [op |-> "registerFigure", args |-> args, res |-> r.res]
        /\ UNCHANGED <<heap, figures, currentFigure, currentParams, lastOk>>

\* figureFactory.createFigure(type) called directly
Create ==
    \E t \in Tags :
        LET cls == createFigure(figureFactory, t) IN
        /\ cls # "" => Len(heap) < MaxCreate
        /\ heap' = IF cls = "" THEN heap ELSE Append(heap, NewFigure(cls))
        /\ ret' = [op |-> "createFigure", type |-> t,
                   res |-> IF cls = "" THEN nullptr ELSE Len(heap) + 1]
        /\ UNCHANGED <<figureFactory, figures, currentFigure, currentParams, lastOk>>

\* the parameter vectors a caller may hand to Figure::draw: from none up to
\* one more than any variant needs
ParamLists ==
    {SubSeq(Payload(s, MaxParams + 1), 1, k) :
        s \in 1..MaxSeed, k \in 0..(MaxParams + 1)}

\* figure->draw(drawer, params) called directly on a created Figure
DrawFigure ==
    \E p \in DOMAIN heap, params \in ParamLists :
        /\ ret' = [op |-> "Figure::draw", figure |-> p, params |-> params,
                   calls |-> FigureDraw(heap[p], params)]
        /\ UNCHANGED <<figureFactory, heap, figures, currentFigure, currentParams, lastOk>>

\* feature.read(reader)
Read ==
    \E reader \in Readers :
        LET f == [figures |-> figures, heap |-> heap,
                  currentFigure |-> currentFigure, currentParams |-> currentParams]
            r == FeatureRead(figureFactory, f, reader)
        IN
        /\ figures' = r.figures
        /\ heap' = r.heap
        /\ currentFigure' = r.currentFigure
        /\ currentParams' = r.currentParams
        /\ ret' = [op |-> "read", reader |-> reader, res |-> r.res, reads |-> r.reads]
        /\ lastOk' = IF r.res
                     THEN LET tag == ReaderRead(reader, 0, 1).data[1] IN
                          [present |-> TRUE, kind |-> tag,
                           params |-> ReaderRead(reader, 1, r.reads[2].count).data]
                     ELSE lastOk
        /\ UNCHANGED figureFactory

\* feature.draw(drawer)
Draw ==
    LET r == FeatureDraw(heap, currentFigure, currentParams) IN
    /\ currentFigure' = r.currentFigure
    /\ currentParams' = r.currentParams
    /\ ret' = [op |-> "draw", calls |-> r.calls]
    /\ UNCHANGED <<figureFactory, heap, figures, lastOk>>

\* A factory with a Feature built on it: registrations, decodes and renders
\* in any order.  Feature::read is the only caller of createFigure here.
Next == Register \/ Read \/ Draw

Spec == Init /\ [][Next]_vars

\* The factory on its own, with createFigure called directly and draw called
\* on the Figures it returned.  A directly created Figure is never seen by a
\* Feature and createFigure and draw are const, so these calls are kept out
\* of Spec.
FactoryNext == Register \/ Create \/ DrawFigure

FactorySpec == Init /\ [][FactoryNext]_vars

----------------------------------------------------------------------------
(* main *)

\* main's return statements with the test inverted
mainReturn_Inverted(valid) == IF valid THEN 1 ELSE 0

\* if (!feature.isValid()) return 1; return 0;
mainReturn(valid) == IF ~valid THEN 1 ELSE 0

\* figureFactory.registerFigure<Figure::Circle, Figure::Triangle, Figure::Square>()
MainRegister ==
    /\ ret.op = "init"
    /\ LET args == <<"Circle", "Triangle", "Square">>
           r == registerFigure(figureFactory, args)
       IN /\ figureFactory' = r.map
          /\ ret' = [op |-> "registerFigure", args |-> args, res |-> r.res]
    /\ UNCHANGED <<heap, figures, currentFigure, currentParams, lastOk>>

\* feature.read(reader): reader is File("features.dat"), whatever that file
\* holds or with fopen failed, or ReaderMock in the TestMode build
MainRead == ret.op = "registerFigure" /\ Read

\* feature.draw(drawer)
MainDraw == ret.op = "read" /\ Draw

\* the return from main
MainExit ==
    /\ ret.op = "draw"
    /\ ret' = [op |-> "exit", status |-> mainReturn(isValid)]
    /\ UNCHANGED <<figureFactory, heap, figures, currentFigure, currentParams, lastOk>>

MainNext == MainRegister \/ MainRead \/ MainDraw \/ MainExit

MainSpec == Init /\ [][MainNext]_vars

----------------------------------------------------------------------------
(* Properties *)

\* What a reader hands to one read() call, stated from the record layout
\* [kind][param_0 .. param_{n-1}] rather than from the read calls.

\* the parameter count of a kind
KindCount(k) ==
    CASE k = eCircle -> 3
      [] k = eTriangle -> 6
      [] k = eSquare -> 8
      [] OTHER -> 0

\* the source supplies a full kind tag
SuppliesTag(reader) ==
    \/ reader.impl = "ReaderMock"
    \/ reader.impl = "File" /\ reader.file /\ Len(reader.data) >= 1

\* the kind tag it supplies
SuppliedTag(reader) ==
    IF reader.impl = "ReaderMock" THEN eCircle ELSE reader.data[1]

\* the source supplies n further values after the tag
SuppliesParams(reader, n) ==
    \/ reader.impl = "ReaderMock"
    \/ reader.impl = "File" /\ Len(reader.data) >= 1 + n

\* those n values, in the order they are stored
SuppliedParams(reader, n) ==
    IF reader.impl = "ReaderMock" THEN [i \in 1..n |-> MockValue]
    ELSE [i \in 1..n |-> reader.data[1 + i]]

\* C1: after any decode call that returns failure, isValid() is false,
\* whether the decoder was empty or holding a record before the call.
C1_FailedReadIsInvalid ==
    (ret.op = "read" /\ ~ret.res) => ~isValid

\* C2: a decode call that fails leaves the held variant and the held parameter
\* list exactly as they were before the call.
C2_FailedReadKeepsRecord ==
    [][(ret'.op = "read" /\ ~ret'.res) =>
          (currentFigure' = currentFigure /\ currentParams' = currentParams)]_vars

\* a failed decode on a decoder that holds a record
C2_Witness ==
    ret.op = "read" /\ ~ret.res /\ currentFigure # nullptr

\* C3: a decode call succeeds exactly when the source supplies a full kind
\* tag, the kind is registered (or already cached) and the source supplies n
\* further values, n being the kind's count (3, 6, 8); after success isValid()
\* is true and the held record is the variant of that kind with exactly those
\* n values in the order read.
C3_ReadSucceedsExactlyWhen ==
    [][ret'.op = "read" =>
          LET reader == ret'.reader
              ok == /\ SuppliesTag(reader)
                    /\ SuppliedTag(reader) \in DOMAIN figureFactory \cup DOMAIN figures
                    /\ SuppliesParams(reader, KindCount(SuppliedTag(reader)))
          IN /\ ret'.res <=> ok
             /\ ret'.res =>
                  /\ currentFigure' # nullptr
                  /\ type(heap'[currentFigure']) = SuppliedTag(reader)
                  /\ currentParams' =
                        SuppliedParams(reader, KindCount(SuppliedTag(reader)))]_vars

\* a successful decode of a triangle from a file
C3_Witness ==
    /\ ret.op = "read" /\ ret.res /\ ret.reader.impl = "File"
    /\ type(heap[currentFigure]) = eTriangle
    /\ Len(currentParams) = 6

\* C4: the held (variant, parameters) pair, when present, is the kind and the
\* parameter values of the most recent decode call that succeeded; it never
\* pairs the variant of one record with the parameters of another and is
\* replaced only by a decode that fully succeeds.
C4_HeldIsLastSuccess ==
    isValid =>
        /\ lastOk.present
        /\ type(heap[currentFigure]) = lastOk.kind
        /\ currentParams = lastOk.params

\* a decode that resolved another kind and then failed on its parameters,
\* on a decoder that holds a record
C4_Witness ==
    /\ ret.op = "read" /\ ~ret.res /\ Len(ret.reads) = 2
    /\ isValid
    /\ ret.reader.impl = "File" /\ ret.reader.data[1] # lastOk.kind

\* the kinds of a template pack
PackKinds(args) == {TYPE(args[i]) : i \in DOMAIN args}

\* C5: registering a kind that is already in the registry fails and leaves the
\* registry unchanged: the constructor stored for the kind is not replaced and
\* a later create(kind) returns what it returned before.
C5_DuplicateRegistrationRejected ==
    [][ret'.op = "registerFigure" =>
          /\ \A t \in DOMAIN figureFactory :
                /\ t \in DOMAIN figureFactory'
                /\ figureFactory'[t] = figureFactory[t]
                /\ createFigure(figureFactory', t) = createFigure(figureFactory, t)
          /\ (Len(ret'.args) = 1 /\ PackKinds(ret'.args) \subseteq DOMAIN figureFactory)
                => (~ret'.res /\ figureFactory' = figureFactory)]_vars

\* one kind registered again, and rejected
C5_Witness ==
    /\ ret.op = "registerFigure" /\ Len(ret.args) = 1 /\ ~ret.res
    /\ PackKinds(ret.args) \subseteq DOMAIN figureFactory

\* C6: registerFigure<K1..Kn>() returns true if and only if every single
\* registration of the batch succeeded: no Ki was in the registry before the
\* call and no kind occurs twice in the batch.
C6_BatchResult ==
    [][ret'.op = "registerFigure" =>
          (ret'.res <=>
              /\ PackKinds(ret'.args) \cap DOMAIN figureFactory = {}
              /\ \A i, j \in DOMAIN ret'.args :
                    i # j => TYPE(ret'.args[i]) # TYPE(ret'.args[j]))]_vars

\* a batch of two different kinds that returned false
C6_Witness ==
    /\ ret.op = "registerFigure" /\ Len(ret.args) = 2 /\ ~ret.res
    /\ ret.args[1] # ret.args[2]

\* C7: create(kind) returns a newly constructed variant of the requested kind
\* with that kind's parameter count when the kind is registered, and null when
\* it is not; every call yields an instance distinct from all earlier ones,
\* and create never changes the registry.
C7_CreateFigure ==
    [][ret'.op = "createFigure" =>
          /\ figureFactory' = figureFactory
          /\ IF ret'.type \in DOMAIN figureFactory
             THEN /\ ret'.res # nullptr
                  /\ ret'.res \notin DOMAIN heap
                  /\ ret'.res \in DOMAIN heap'
                  /\ type(heap'[ret'.res]) = ret'.type
                  /\ countParams(heap'[ret'.res]) = KindCount(ret'.type)
                  /\ \A p \in DOMAIN heap : heap'[p] = heap[p]
             ELSE ret'.res = nullptr /\ heap' = heap]_vars

\* a second instance of a kind, at another address than the first
C7_Witness ==
    /\ ret.op = "createFigure" /\ ret.res = 2
    /\ type(heap[1]) = type(heap[2])

\* the surface calls a render of record (kind, params) has to make
ExpectedCalls(kind, params) ==
    IF kind = eCircle
    THEN <<[fn |-> "drawCircle", centerX |-> params[1], centerY |-> params[2],
            radius |-> params[3]]>>
    ELSE <<[fn |-> "drawPoligon", points |-> params]>>

\* C8: render on a holding decoder makes exactly one surface call: drawCircle
\* with the first three decoded values in order for a circle, drawPoligon with
\* the whole decoded list for a triangle or a square.
C8_RenderCalls ==
    (ret.op = "draw" /\ isValid) =>
        /\ Len(ret.calls) = 1
        /\ ret.calls = ExpectedCalls(lastOk.kind, lastOk.params)

\* a render of a held circle
C8_Witness ==
    ret.op = "draw" /\ isValid /\ lastOk.kind = eCircle /\ Len(ret.calls) = 1

\* C9: render never changes the decoder's state (held variant, held
\* parameters, variant cache), and a render that follows a render makes the
\* same surface calls.
C9_RenderKeepsState ==
    [][ret'.op = "draw" =>
          /\ currentFigure' = currentFigure
          /\ currentParams' = currentParams
          /\ figures' = figures
          /\ heap' = heap
          /\ ret.op = "draw" => ret'.calls = ret.calls]_vars

\* a render of a held polygon
C9_Witness ==
    /\ ret.op = "draw" /\ isValid /\ lastOk.kind = eSquare
    /\ ret.calls[1].points = currentParams

\* C10: a decoder on which no decode has succeeded is empty: isValid() is
\* false, and render makes no surface call.
C10_EmptyUntilSuccess ==
    ~lastOk.present =>
        /\ ~isValid
        /\ ret.op = "draw" => ret.calls = <<>>

\* a render after a decode was tried and none succeeded
C10_Witness ==
    ret.op = "draw" /\ ~lastOk.present /\ ~isValid /\ figureFactory # <<>>

\* why a decode from `reader` fails against registry `map`: "ShortRead" when
\* the tag or the parameters cannot be fully read, "UnknownKind" when the tag
\* is read and not registered, "" when it does not fail
FailureCause(map, reader) ==
    IF ~SuppliesTag(reader) THEN "ShortRead"
    ELSE IF SuppliedTag(reader) \notin DOMAIN map THEN "UnknownKind"
    ELSE IF ~SuppliesParams(reader, KindCount(SuppliedTag(reader))) THEN "ShortRead"
    ELSE ""

\* C11: the result of a failed decode tells which failure occurred: two
\* failed decodes whose failures differ (one UnknownKind, one ShortRead)
\* return different results.  (Stated on two decodes in a row, between which
\* the registry cannot change.)
C11_FailureReasonReported ==
    [][(/\ ret.op = "read" /\ ~ret.res
        /\ ret'.op = "read" /\ ~ret'.res
        /\ FailureCause(figureFactory, ret.reader)
              # FailureCause(figureFactory, ret'.reader))
          => ret'.res # ret.res]_vars

\* C12: the program performs one decode, then one render, then exits with
\* status 0 if and only if that decode succeeded; the render happens whether
\* or not the decode succeeded and draws nothing when it failed.
C12_MainRun ==
    [][/\ ret'.op = "read" => ret.op = "registerFigure"
       /\ ret'.op = "draw" =>
             /\ ret.op = "read"
             /\ ~ret.res => ret'.calls = <<>>
             /\ ret.res => Len(ret'.calls) = 1
       /\ ret'.op = "exit" =>
             /\ ret.op = "draw"
             /\ (ret'.status = 0) <=> lastOk.present
             /\ ret'.status \in {0, 1}
       /\ ret.op = "read" => ret'.op = "draw"
       /\ ret.op = "draw" => ret'.op = "exit"]_vars

\* the program has exited with a nonzero status after a failed decode and a
\* render that drew nothing
C12_Witness ==
    ret.op = "exit" /\ ret.status # 0 /\ ~lastOk.present /\ figures # <<>>

\* C13: across any sequence of decode calls on one decoder at most one
\* variant instance is constructed per kind: no two constructed instances have
\* the same kind, and the variant a decode holds is the instance cached
\* under its kind.
C13_OneInstancePerKind ==
    /\ \A p, q \in DOMAIN heap : type(heap[p]) = type(heap[q]) => p = q
    /\ isValid =>
          /\ type(heap[currentFigure]) \in DOMAIN figures
          /\ figures[type(heap[currentFigure])] = currentFigure

\* a decode succeeded on the first instance ever constructed, after another
\* kind was constructed: the cached instance was used again
C13_Witness ==
    /\ ret.op = "read" /\ ret.res
    /\ Len(heap) >= 2 /\ currentFigure = 1

\* C14 as claimed: a decode that fails leaves the variant cache unchanged.
C14_FailedReadKeepsCache ==
    [][(ret'.op = "read" /\ ~ret'.res) => figures' = figures]_vars

\* C14 amended: the cache gains an entry exactly when a decode reads a kind
\* tag that is registered and not yet cached, whether or not the parameter
\* read that follows succeeds; the entries it had stay as they were, and a
\* decode that fails on the tag read or on an unregistered kind leaves it
\* unchanged.
C14_CacheGrowsOnResolve ==
    [][ret'.op = "read" =>
          LET reader == ret'.reader
              resolves == /\ SuppliesTag(reader)
                          /\ SuppliedTag(reader) \in DOMAIN figureFactory
                          /\ SuppliedTag(reader) \notin DOMAIN figures
          IN /\ \A t \in DOMAIN figures :
                    t \in DOMAIN figures' /\ figures'[t] = figures[t]
             /\ DOMAIN figures' =
                    IF resolves THEN DOMAIN figures \cup {SuppliedTag(reader)}
                    ELSE DOMAIN figures]_vars

\* a decode that resolved a registered kind, failed on the parameter read and
\* left the kind in the cache
C14_Witness ==
    /\ ret.op = "read" /\ ~ret.res /\ Len(ret.reads) = 2
    /\ ~lastOk.present
    /\ ret.reader.data[1] \in DOMAIN figures

\* C15: within every decode the source reads happen in a fixed order: first
\* one read of one kind tag; a parameter read is issued only after that read
\* succeeded and the kind was resolved, and it is a single read asking for
\* that variant's parameter count; when the tag read fails or the kind is
\* unregistered no parameter value is requested.
C15_ReadOrder ==
    ret.op = "read" =>
        LET tagRead == ret.reads[1]
            resolved == tagRead.ok /\ tagRead.data[1] \in DOMAIN figureFactory
        IN /\ Len(ret.reads) >= 1
           /\ tagRead.count = 1
           /\ Len(ret.reads) = IF resolved THEN 2 ELSE 1
           /\ resolved => ret.reads[2].count = KindCount(tagRead.data[1])

\* a decode whose tag was read and named an unregistered kind: one read only
C15_Witness ==
    /\ ret.op = "read" /\ Len(ret.reads) = 1
    /\ ret.reads[1].ok /\ ret.reads[1].data[1] \notin DOMAIN figureFactory
    /\ figureFactory # <<>>

\* C16: whenever isValid() is true the held parameter list is as long as the
\* held variant's declared parameter count (3, 6, 8), so the too-few-parameters
\* guard in draw never suppresses a render made through the decoder.
C16_HeldLengthMatches ==
    isValid =>
        /\ Len(currentParams) = countParams(heap[currentFigure])
        /\ Len(currentParams) = KindCount(type(heap[currentFigure]))
        /\ ret.op = "draw" => ret.calls # <<>>

\* a held square, rendered
C16_Witness ==
    /\ ret.op = "draw" /\ isValid /\ ret.calls # <<>>
    /\ Len(currentParams) = 8

\* C17: draw on any variant called with fewer parameters than the variant
\* requires makes no surface call (and reads no element of the vector); with
\* at least the required count it makes exactly one surface call.
C17_DrawGuard ==
    ret.op = "Figure::draw" =>
        IF Len(ret.params) < KindCount(type(heap[ret.figure]))
        THEN ret.calls = <<>>
        ELSE Len(ret.calls) = 1

\* a triangle drawn with five parameters: nothing is called
C17_Witness ==
    /\ ret.op = "Figure::draw" /\ type(heap[ret.figure]) = eTriangle
    /\ Len(ret.params) = 5 /\ ret.calls = <<>>

\* C18: under any interleaving of registrations, decodes and renders, after
\* every step: every kind in the decoder's cache is registered in the
\* factory, the variant cached under a kind reports that kind, the cache has
\* lost or replaced no entry, and the held variant (when present) is the
\* instance cached under its own kind.
C18_CacheConsistent ==
    [][/\ DOMAIN figures' \subseteq DOMAIN figureFactory'
       /\ \A t \in DOMAIN figures' :
             /\ figures'[t] \in DOMAIN heap'
             /\ type(heap'[figures'[t]]) = t
       /\ \A t \in DOMAIN figures :
             t \in DOMAIN figures' /\ figures'[t] = figures[t]
       /\ currentFigure' # nullptr =>
             \E t \in DOMAIN figures' :
                 figures'[t] = currentFigure' /\ type(heap'[currentFigure']) = t]_vars

\* all three kinds cached, the decoder holding the one cached second, and a
\* registration made after the decodes
C18_Witness ==
    /\ ret.op = "registerFigure"
    /\ DOMAIN figures = Type
    /\ currentFigure = 2

\* the first position of kind t in a template pack
FirstOf(args, t) ==
    CHOOSE i \in DOMAIN args :
        TYPE(args[i]) = t /\ \A j \in DOMAIN args : TYPE(args[j]) = t => i <= j

\* C19: a batch registration does not stop at the first rejected kind: after
\* registerFigure<K1..Kn>() returns, true or false, every Ki is in the
\* registry, the entries that existed before are unchanged, and a kind
\* repeated in the batch has the constructor of its first occurrence.
C19_BatchAppliesAll ==
    [][ret'.op = "registerFigure" =>
          /\ DOMAIN figureFactory' = DOMAIN figureFactory \cup PackKinds(ret'.args)
          /\ \A t \in DOMAIN figureFactory : figureFactory'[t] = figureFactory[t]
          /\ \A t \in PackKinds(ret'.args) \ DOMAIN figureFactory :
                figureFactory'[t] = ret'.args[FirstOf(ret'.args, t)]]_vars

\* a batch that repeated a kind, returned false and left that kind registered
C19_Witness ==
    /\ ret.op = "registerFigure" /\ ~ret.res
    /\ Len(ret.args) = 2 /\ ret.args[1] = ret.args[2]
    /\ DOMAIN figureFactory = PackKinds(ret.args)

\* the fixed value repeated n times
Repeated(n) == [i \in 1..n |-> MockValue]

\* the drawCircle call the test doubles print for the mock's record
MockCircleCall ==
    <<[fn |-> "drawCircle", centerX |-> MockValue, centerY |-> MockValue,
       radius |-> MockValue]>>

\* C20 as claimed: the test-double source returns the circle kind on its
\* first read call and the fixed value, repeated for the requested count, on
\* every later read call, and never fails.  (A held record of three equal
\* values can only have come from the test double, so a decode that starts
\* from such a state makes later calls only.)
C20_MockScriptedByPosition ==
    [][(ret'.op = "read" /\ ret'.reader.impl = "ReaderMock") =>
          LET calls == ret'.reads
              usedBefore == lastOk.present /\ lastOk.params = Repeated(3)
          IN /\ \A i \in DOMAIN calls : calls[i].ok
             /\ calls[1].data =
                   IF usedBefore THEN Repeated(calls[1].count) ELSE <<eCircle>>
             /\ \A i \in DOMAIN calls :
                   i > 1 => calls[i].data = Repeated(calls[i].count)]_vars

\* C20 amended: the test-double source returns the circle kind on every read
\* call that asks for one element and the fixed value, repeated for the
\* requested count, on every read call that asks for more, and never fails;
\* so every decode through it with the circle kind registered (as in main)
\* succeeds and holds a circle with three equal parameters, and a render
\* after it prints one drawCircle call with those three values.
C20_MockKeyedByCount ==
    [][(ret.op = "read" /\ ret.reader.impl = "ReaderMock") =>
          /\ \A i \in DOMAIN ret.reads :
                /\ ret.reads[i].ok
                /\ ret.reads[i].data =
                      IF ret.reads[i].count = 1 THEN <<eCircle>>
                      ELSE Repeated(ret.reads[i].count)
          /\ ret.res <=> eCircle \in DOMAIN figureFactory
          /\ ret.res =>
                /\ type(heap[currentFigure]) = eCircle
                /\ currentParams = Repeated(3)
                /\ ret'.op = "draw" => ret'.calls = MockCircleCall]_vars

\* the record of the test double, decoded and rendered
C20_Witness ==
    /\ ret.op = "draw" /\ ret.calls = MockCircleCall
    /\ currentParams = Repeated(3)

====
